---- MODULE Spec2Model ----
(***************************************************************************)
(* The B2C auth-code sample web application (src/unnamed/part_001): an     *)
(* express server whose routes /login, /profile, /api and /redirect share  *)
(* the module-level objects authCodeRequest and tokenRequest and the       *)
(* app.locals values pkceCodes and accessToken.                            *)
(*                                                                         *)
(* Node runs one callback at a time, so every action below is one callback *)
(* run to completion: the synchronous part of a route handler, or the      *)
(* then/catch continuation of one promise.  Requests are numbered in order *)
(* of arrival; requests[r] keeps the position of request r's handler and   *)
(* what the handler passed to the library calls (the object as it was at   *)
(* the call).                                                              *)
(*                                                                         *)
(* Encodings.  String and list values are kept as they are in the source.  *)
(* The PKCE verifier, the challenge, the authorization code and the access *)
(* token are numbers: 0 is the absent value ("" / undefined / null), the   *)
(* verifier generated by the getAuthCode invocation of request r is r, the *)
(* authorization code the provider issues for the authorization request of *)
(* request r is r, and the access token returned to the exchange of        *)
(* request r is r.                                                         *)
(***************************************************************************)
EXTENDS Integers, Sequences, FiniteSets, TLC

\* Bounds of the model.
MaxRequests == 3
MaxTime == 2
TokenLifetime == 1

\* The browsers (end users) that send requests.
Users == {"alice", "bob"}

Anonymous == "anonymous"

Undefined == "undefined"
Null == 0
EmptyString == 0

policies ==
    [authorities |->
        [signUpSignIn  |-> [authority |-> "B2C_1_susi"],
         resetPassword |-> [authority |-> "B2C_1_reset"],
         editProfile   |-> [authority |-> "B2C_1_edit_profile"]]]

\* The object policies.authorities.resetPassword itself (not its .authority
\* string), which line 203 assigns to authCodeRequest.authority.
ResetPasswordPolicy == "policies.authorities.resetPassword"

SCOPES ==
    [oidc      |-> <<"openid", "profile">>,
     resource1 |-> <<"https://fabrikamb2c.onmicrosoft.com/helloapi/demo.read">>]

APP_STATES ==
    [login |-> "login", call_api |-> "call_api", password_reset |-> "password_reset"]

RedirectUri == "http://localhost:3000/redirect"

VARIABLES
    authCodeRequest,   \* the shared request object given to getAuthCodeUrl
    tokenRequest,      \* the shared request object given to acquireTokenByCode
    pkceCodes,         \* app.locals.pkceCodes
    accessToken,       \* app.locals.accessToken
    requests,          \* the HTTP requests received so far, in order of arrival
    redeemed,          \* authorization codes the provider has exchanged
    now                \* the clock

vars == <<authCodeRequest, tokenRequest, pkceCodes, accessToken, requests, redeemed, now>>

\* The state of src/lib/msal-browser/src/utils/JsonWebEncryption.ts.
VARIABLES
    rawJwe,    \* the argument of the constructor
    jwe,       \* the JsonWebEncryption object, once the constructor has run
    unwrap,    \* one call of unwrapContentEncryptionKey
    sample     \* the run of the persistence sample

jweVars == <<rawJwe, jwe, unwrap, sample>>

(***************************************************************************)
(* Request records.                                                        *)
(***************************************************************************)
\* The query of a request that carries none of the parameters the handlers read.
NoQuery ==
    [state |-> Undefined, code |-> 0, error |-> Undefined, error_description |-> Undefined]

NoArgs == [authority |-> Undefined, scopes |-> <<>>, state |-> Undefined]

\* error_description values of the provider: the first is the one B2C sends
\* when the user selects "forgot my password".
ForgotPasswordDescription == "AADB2C90118: The user has forgotten their password."
CancelledDescription == "AADB2C90091: The user has cancelled entering self-asserted information."

\* String.prototype.includes("AADB2C90118") on JSON.stringify(description):
\* stringify quotes the text and keeps the code inside it.
IncludesForgotPasswordCode(description) ==
    description \in {ForgotPasswordDescription}

\* Lines 65-67 and 69-71: the two request objects as the script creates
\* them (a field not yet assigned is undefined: "undefined", <<>> or 0).
NewAuthCodeRequest ==
    [redirectUri |-> RedirectUri, authority |-> Undefined, scopes |-> <<>>,
     state |-> Undefined, codeChallenge |-> 0, codeChallengeMethod |-> Undefined]

NewTokenRequest ==
    [redirectUri |-> RedirectUri, authority |-> Undefined, scopes |-> <<>>,
     code |-> 0, codeVerifier |-> 0]

\* A request as it arrives: no library call made, no response sent.
\*   pc       where its handler is: "pkce" (generatePkceCodes pending), "url"
\*            (getAuthCodeUrl pending), "exchange" (acquireTokenByCode pending),
\*            "webapi" (callWebApi pending), "done" (answered), "dead" (its
\*            promise chain ended without an answer)
\*   calls    the library calls its handler has made
\*   resp     the response sent: "none", "authUrl" (redirect to the provider),
\*            "toLogin" (redirect to /login), "render", "error500"
\*   body     what a 500 response carries
\*   answeredAfter  how many requests had arrived when the response was sent
\*   args     the arguments of its getAuthCode invocation
\*   verifier the verifier generatePkceCodes gave that invocation
\*   sent     the object passed to getAuthCodeUrl, as it was at the call
\*   tokreq   the object passed to acquireTokenByCode, as it was at the call
\*   token, expiresOn, owner   the access token of the exchange's response,
\*            its expiry and the account it was issued to
\*   apiToken, apiTime   the token passed to callWebApi, and when
NewRequest(route, user, query) ==
    [route |-> route, user |-> user, query |-> query,
     pc |-> "done", calls |-> {}, resp |-> "none", body |-> <<>>, answeredAfter |-> 0,
     args |-> NoArgs, verifier |-> 0,
     sent |-> NewAuthCodeRequest, tokreq |-> NewTokenRequest,
     token |-> 0, expiresOn |-> 0, owner |-> Undefined,
     apiToken |-> 0, apiTime |-> 0]

\* Request r's record once response `resp` (with `body`) was sent to its res.
Answered(r, resp, body) ==
    [requests[r] EXCEPT !.pc = "done", !.resp = resp, !.body = body,
                        !.answeredAfter = Len(requests)]

Ids == 1..Len(requests)

CanReceive == Len(requests) < MaxRequests

\* base64url(SHA-256(verifier)): one challenge per verifier, never the verifier.
Challenge(verifier) == 2 * verifier + 1

(***************************************************************************)
(* Initial state: the module-level objects as the script builds them.      *)
(***************************************************************************)
Init ==
    /\ authCodeRequest = NewAuthCodeRequest
    /\ tokenRequest = NewTokenRequest
    /\ pkceCodes = [challengeMethod |-> "S256", verifier |-> EmptyString, challenge |-> EmptyString]
    /\ accessToken = Null
    /\ requests = <<>>
    /\ redeemed = {}
    /\ now = 0

(***************************************************************************)
(* getAuthCode: the synchronous part, then the two continuations.          *)
(***************************************************************************)
\* Lines 119-123: the assignments getAuthCode makes to the shared object.
PrepareAuthCodeRequest(args) ==
    [authCodeRequest EXCEPT !.authority = args.authority,
                            !.scopes = args.scopes,
                            !.state = args.state]

\* A route handler that calls getAuthCode(authority, scopes, state, res):
\* the request is received, the shared object prepared and PKCE generation
\* started.
StartAuthCode(route, user, args) ==
    /\ authCodeRequest' = PrepareAuthCodeRequest(args)
    /\ requests' = Append(requests,
          [NewRequest(route, user, NoQuery) EXCEPT
              !.pc = "pkce", !.calls = {"generatePkceCodes"}, !.args = args])

\* The PKCE callback with lines 133-134 run before lines 129-130: the request
\* takes the challenge that was in app.locals before this invocation's codes.
PkceResolved_StaleChallenge(r) ==
    /\ requests[r].pc = "pkce"
    /\ LET verifier == r
           challenge == Challenge(verifier)
           codes == [pkceCodes EXCEPT !.verifier = verifier, !.challenge = challenge]
           request == [authCodeRequest EXCEPT
                          !.codeChallenge = pkceCodes.challenge,
                          !.codeChallengeMethod = pkceCodes.challengeMethod]
       IN /\ pkceCodes' = codes
          /\ authCodeRequest' = request
          /\ requests' = [requests EXCEPT ![r].pc = "url",
                                          ![r].calls = @ \cup {"getAuthCodeUrl"},
                                          ![r].verifier = verifier,
                                          ![r].sent = request]
    /\ UNCHANGED <<tokenRequest, accessToken, redeemed, now, jweVars>>

\* Lines 127-136: generatePkceCodes resolved for request r.
PkceResolved(r) ==
    /\ requests[r].pc = "pkce"
    /\ LET verifier == r
           challenge == Challenge(verifier)
           codes == [pkceCodes EXCEPT !.verifier = verifier, !.challenge = challenge]
           request == [authCodeRequest EXCEPT
                          !.codeChallenge = codes.challenge,
                          !.codeChallengeMethod = codes.challengeMethod]
       IN /\ pkceCodes' = codes
          /\ authCodeRequest' = request
          /\ requests' = [requests EXCEPT ![r].pc = "url",
                                          ![r].calls = @ \cup {"getAuthCodeUrl"},
                                          ![r].verifier = verifier,
                                          ![r].sent = request]
    /\ UNCHANGED <<tokenRequest, accessToken, redeemed, now, jweVars>>

\* Line 127 has no catch: a rejected generatePkceCodes ends the chain.
PkceRejected(r) ==
    /\ requests[r].pc = "pkce"
    /\ requests' = [requests EXCEPT ![r].pc = "dead"]
    /\ UNCHANGED <<authCodeRequest, tokenRequest, pkceCodes, accessToken, redeemed, now, jweVars>>

\* Lines 136-137: getAuthCodeUrl resolved, the URL goes to this request's res.
AuthCodeUrlResolved(r) ==
    /\ requests[r].pc = "url"
    /\ requests' = [requests EXCEPT ![r] = Answered(r, "authUrl", <<>>)]
    /\ UNCHANGED <<authCodeRequest, tokenRequest, pkceCodes, accessToken, redeemed, now, jweVars>>

\* Line 138: getAuthCodeUrl rejected, the error is logged and nothing is sent.
AuthCodeUrlRejected(r) ==
    /\ requests[r].pc = "url"
    /\ requests' = [requests EXCEPT ![r].pc = "dead"]
    /\ UNCHANGED <<authCodeRequest, tokenRequest, pkceCodes, accessToken, redeemed, now, jweVars>>

(***************************************************************************)
(* The routes that start an authorization request.                         *)
(***************************************************************************)
\* Lines 150-158.
LoginArgs ==
    IF authCodeRequest.state = APP_STATES.password_reset
    THEN [authority |-> policies.authorities.resetPassword.authority,
          scopes |-> SCOPES.oidc, state |-> APP_STATES.password_reset]
    ELSE [authority |-> policies.authorities.signUpSignIn.authority,
          scopes |-> SCOPES.oidc, state |-> APP_STATES.login]

Login(user) ==
    /\ CanReceive
    /\ StartAuthCode("login", user, LoginArgs)
    /\ UNCHANGED <<tokenRequest, pkceCodes, accessToken, redeemed, now, jweVars>>

\* Lines 161-163.
ProfileArgs ==
    [authority |-> policies.authorities.editProfile.authority,
     scopes |-> SCOPES.oidc, state |-> APP_STATES.login]

Profile(user) ==
    /\ CanReceive
    /\ StartAuthCode("profile", user, ProfileArgs)
    /\ UNCHANGED <<tokenRequest, pkceCodes, accessToken, redeemed, now, jweVars>>

\* Lines 166-177.
ApiArgs ==
    [authority |-> policies.authorities.signUpSignIn.authority,
     scopes |-> SCOPES.resource1, state |-> APP_STATES.call_api]

\* Line 168: whether /api uses the stored token.
HasStoredToken == accessToken # Null

Api(user) ==
    /\ CanReceive
    /\ IF ~HasStoredToken
       THEN StartAuthCode("api", user, ApiArgs)
       ELSE /\ requests' = Append(requests,
                  [NewRequest("api", user, NoQuery) EXCEPT
                      !.pc = "webapi", !.calls = {"callWebApi"},
                      !.apiToken = accessToken, !.apiTime = now])
            /\ UNCHANGED authCodeRequest
    /\ UNCHANGED <<tokenRequest, pkceCodes, accessToken, redeemed, now, jweVars>>

(***************************************************************************)
(* /redirect: the second leg.                                              *)
(***************************************************************************)
\* The branch selection with a missing state taken for the login state.
RedirectBranch_MissingStateIsLogin(query) ==
    IF query.state \in {APP_STATES.login, Undefined} THEN "login"
    ELSE IF query.state = APP_STATES.call_api THEN "call_api"
    ELSE IF query.state = APP_STATES.password_reset THEN "password_reset"
    ELSE "unknown"

\* Lines 183, 211, 236, 241: the branch the handler takes.
RedirectBranch(query) ==
    IF query.state = APP_STATES.login THEN "login"
    ELSE IF query.state = APP_STATES.call_api THEN "call_api"
    ELSE IF query.state = APP_STATES.password_reset THEN "password_reset"
    ELSE "unknown"

\* Lines 186-188 and 214-217: the assignments to the shared token request.
PrepareTokenRequest(branch, query) ==
    IF branch = "login"
    THEN [tokenRequest EXCEPT !.scopes = SCOPES.oidc,
                              !.code = query.code,
                              !.codeVerifier = pkceCodes.verifier]
    ELSE [tokenRequest EXCEPT !.authority = policies.authorities.signUpSignIn.authority,
                              !.scopes = SCOPES.resource1,
                              !.code = query.code,
                              !.codeVerifier = pkceCodes.verifier]

\* The browser a /redirect request comes from: the one the provider sent
\* there with the code, or nobody in particular when it carries no code.
Sender(query) ==
    IF query.code = 0 THEN Anonymous ELSE requests[query.code].user

\* Lines 180-244, up to the first pending promise.
Redirect(query) ==
    /\ CanReceive
    /\ LET branch == RedirectBranch(query)
           req == NewRequest("redirect", Sender(query), query)
       IN CASE branch \in {"login", "call_api"} ->
                 /\ tokenRequest' = PrepareTokenRequest(branch, query)
                 /\ requests' = Append(requests,
                       [req EXCEPT !.pc = "exchange", !.calls = {"acquireTokenByCode"},
                                   !.tokreq = tokenRequest'])
                 /\ UNCHANGED authCodeRequest
            [] branch = "password_reset" ->
                 /\ authCodeRequest' = [authCodeRequest EXCEPT !.state = APP_STATES.login]
                 /\ requests' = Append(requests,
                       [req EXCEPT !.resp = "toLogin", !.answeredAfter = Len(requests) + 1])
                 /\ UNCHANGED tokenRequest
            [] OTHER ->
                 /\ requests' = Append(requests,
                       [req EXCEPT !.resp = "error500", !.body = <<"Unknown">>,
                                   !.answeredAfter = Len(requests) + 1])
                 /\ UNCHANGED <<authCodeRequest, tokenRequest>>
    /\ UNCHANGED <<pkceCodes, accessToken, redeemed, now, jweVars>>

\* The token endpoint (RFC 6749 4.1.3, RFC 7636 4.6): the code is one the
\* provider issued and has not exchanged, and the verifier hashes to the
\* challenge of the authorization request the code was issued for.
ProviderAccepts(request) ==
    /\ request.code \in Ids
    /\ requests[request.code].resp = "authUrl"
    /\ request.code \notin redeemed
    /\ Challenge(request.codeVerifier) = requests[request.code].sent.codeChallenge

\* The then-callbacks with the login branch storing its token as well.
StoredAfterExchange_EveryBranch(branch, response) ==
    response.accessToken

\* Line 223: what the then-callback of a branch leaves in app.locals.accessToken.
StoredAfterExchange(branch, response) ==
    IF branch = "call_api" THEN response.accessToken ELSE accessToken

\* Lines 191-193 and 220-229: acquireTokenByCode resolved for request r.
ExchangeResolved(r) ==
    /\ requests[r].pc = "exchange"
    /\ ProviderAccepts(requests[r].tokreq)
    /\ LET branch == RedirectBranch(requests[r].query)
           code == requests[r].tokreq.code
           response == [accessToken |-> r,
                        expiresOn |-> now + TokenLifetime,
                        account |-> requests[code].user]
           got == [requests[r] EXCEPT !.token = response.accessToken,
                                      !.expiresOn = response.expiresOn,
                                      !.owner = response.account]
       IN /\ accessToken' = StoredAfterExchange(branch, response)
          /\ redeemed' = redeemed \cup {code}
          /\ requests' = [requests EXCEPT ![r] =
                IF branch = "call_api"
                THEN [got EXCEPT !.pc = "webapi",
                                 !.calls = @ \cup {"callWebApi"},
                                 !.apiToken = response.accessToken,
                                 !.apiTime = now]
                ELSE [got EXCEPT !.pc = "done", !.resp = "render",
                                 !.answeredAfter = Len(requests)]]
    /\ UNCHANGED <<authCodeRequest, tokenRequest, pkceCodes, now, jweVars>>

\* Lines 195-206: whether the login branch's catch turns to password reset.
IsForgotPassword(query) ==
    /\ query.error # Undefined
    /\ IncludesForgotPasswordCode(query.error_description)

\* Lines 194-209 and 231-234: acquireTokenByCode rejected for request r.  In
\* the login branch JSON.stringify(undefined) is undefined, so a query with
\* an error and no error_description throws inside the catch callback.
ExchangeRejected(r) ==
    /\ requests[r].pc = "exchange"
    /\ LET branch == RedirectBranch(requests[r].query)
           query == requests[r].query
       IN IF branch = "login" /\ query.error # Undefined
             /\ query.error_description = Undefined
          THEN /\ requests' = [requests EXCEPT ![r].pc = "dead"]
               /\ UNCHANGED authCodeRequest
          ELSE IF branch = "login" /\ IsForgotPassword(query)
          THEN /\ authCodeRequest' = [authCodeRequest EXCEPT
                     !.authority = ResetPasswordPolicy,
                     !.state = APP_STATES.password_reset]
               /\ requests' = [requests EXCEPT ![r] = Answered(r, "toLogin", <<>>)]
          ELSE /\ requests' = [requests EXCEPT ![r] =
                     Answered(r, "error500", <<"acquireTokenByCode error">>)]
               /\ UNCHANGED authCodeRequest
    /\ UNCHANGED <<tokenRequest, pkceCodes, accessToken, redeemed, now, jweVars>>

\* Lines 172-175 and 226-229: the web API answered, the page is rendered.
WebApiResponded(r) ==
    /\ requests[r].pc = "webapi"
    /\ requests' = [requests EXCEPT ![r] = Answered(r, "render", <<>>)]
    /\ UNCHANGED <<authCodeRequest, tokenRequest, pkceCodes, accessToken, redeemed, now, jweVars>>

\* Time passes.  No handler reads the clock and a token's expiry is counted
\* from its issue, so only the time after the first token was issued matters.
Tick ==
    /\ now < MaxTime
    /\ \E r \in Ids : requests[r].token # 0
    /\ now' = now + 1
    /\ UNCHANGED <<authCodeRequest, tokenRequest, pkceCodes, accessToken, requests, redeemed, jweVars>>

(***************************************************************************)
(* The requests browsers send to /redirect.                                *)
(***************************************************************************)
\* The codes that have reached a browser: the provider issues the code of an
\* authorization request once its URL was sent there.
IssuedCodes == {a \in Ids : requests[a].resp = "authUrl"}

QueryStates ==
    {APP_STATES.login, APP_STATES.call_api, APP_STATES.password_reset,
     "some_other_state", Undefined}

NoError == [error |-> Undefined, error_description |-> Undefined]

QueryErrors ==
    {NoError,
     [error |-> "access_denied", error_description |-> Undefined],
     [error |-> "access_denied", error_description |-> ForgotPasswordDescription],
     [error |-> "access_denied", error_description |-> CancelledDescription]}

\* The queries sent: every state with every code issued so far or none, and,
\* for the one state whose branch reads them (login), every error.
Queries ==
    {q \in [state : QueryStates, code : {0} \cup IssuedCodes,
            error : {e.error : e \in QueryErrors},
            error_description : {e.error_description : e \in QueryErrors}] :
        /\ [error |-> q.error, error_description |-> q.error_description] \in QueryErrors
        /\ q.error = Undefined \/ q.state = APP_STATES.login}

Next ==
    \/ \E user \in Users : Login(user)
    \/ \E user \in Users : Profile(user)
    \/ \E user \in Users : Api(user)
    \/ \E query \in Queries : Redirect(query)
    \/ \E r \in Ids : PkceResolved(r)
    \/ \E r \in Ids : PkceRejected(r)
    \/ \E r \in Ids : AuthCodeUrlResolved(r)
    \/ \E r \in Ids : AuthCodeUrlRejected(r)
    \/ \E r \in Ids : ExchangeResolved(r)
    \/ \E r \in Ids : ExchangeRejected(r)
    \/ \E r \in Ids : WebApiResponded(r)
    \/ Tick

(***************************************************************************)
(* src/lib/msal-browser/src/utils/JsonWebEncryption.ts: the class          *)
(* JsonWebEncryption (lines 14-54) and the persistence sample that runs    *)
(* as the file's top-level code (lines 122-157).                           *)
(*                                                                         *)
(* A string is the sequence of its characters; a decoded string is the     *)
(* sequence of its character codes.                                        *)
(***************************************************************************)
Base64Alphabet ==
    <<"A", "B", "C", "D", "E", "F", "G", "H", "I", "J", "K", "L", "M",
      "N", "O", "P", "Q", "R", "S", "T", "U", "V", "W", "X", "Y", "Z",
      "a", "b", "c", "d", "e", "f", "g", "h", "i", "j", "k", "l", "m",
      "n", "o", "p", "q", "r", "s", "t", "u", "v", "w", "x", "y", "z",
      "0", "1", "2", "3", "4", "5", "6", "7", "8", "9", "-", "_">>

Sextet(char) == (CHOOSE i \in 1..Len(Base64Alphabet) : Base64Alphabet[i] = char) - 1

\* One group of 2 to 4 base64 characters: 1 to 3 bytes.
DecodeGroup(group) ==
    LET digit(i) == IF i <= Len(group) THEN Sextet(group[i]) ELSE 0
        bits == ((digit(1) * 64 + digit(2)) * 64 + digit(3)) * 64 + digit(4)
        bytes == <<bits \div 65536, (bits \div 256) % 256, bits % 256>>
    IN SubSeq(bytes, 1, Len(group) - 1)

\* Base64Decode.decode: the characters decoded four at a time.
RECURSIVE Base64Decode(_)
Base64Decode(encoded) ==
    IF Len(encoded) = 0 THEN <<>>
    ELSE IF Len(encoded) <= 4 THEN DecodeGroup(encoded)
    ELSE DecodeGroup(SubSeq(encoded, 1, 4))
            \o Base64Decode(SubSeq(encoded, 5, Len(encoded)))

\* String.prototype.split("."): the pieces between the dots.
RECURSIVE Split(_)
Split(string) ==
    IF \A i \in 1..Len(string) : string[i] # "."
    THEN <<string>>
    ELSE LET dot == CHOOSE i \in 1..Len(string) :
                        string[i] = "." /\ \A j \in 1..(i - 1) : string[j] # "."
         IN <<SubSeq(string, 1, dot - 1)>> \o Split(SubSeq(string, dot + 1, Len(string)))

\* JSON.parse on the texts the headers of the input pool decode to:
\* {"alg":"dir"} and {} are JSON texts, a text cut short is not.
JsonTexts ==
    {<<123, 34, 97, 108, 103, 34, 58, 34, 100, 105, 114, 34, 125>>, <<123, 125>>}

IsJson(text) == text \in JsonTexts

JsonParse(text) ==
    IF text = <<123, 125>> THEN [alg |-> Undefined] ELSE [alg |-> "dir"]

\* Line 46-53: parseJweProtectedHeader, which rethrows the parse error.
ParseJweProtectedHeader(encodedHeader) ==
    LET decodedHeader == Base64Decode(encodedHeader)
    IN IF IsJson(decodedHeader)
       THEN [thrown |-> FALSE, value |-> JsonParse(decodedHeader)]
       ELSE [thrown |-> TRUE, value |-> "SyntaxError"]

NoJwe == [status |-> "none"]

\* The constructor with lines 30 and 31 reading each other's segment.
Construct_TagAndCiphertextSwapped(raw) ==
    LET jweAttributes == Split(raw)
        header == ParseJweProtectedHeader(jweAttributes[1])
    IN IF header.thrown
       THEN [status |-> "thrown", error |-> header.value]
       ELSE [status |-> "constructed",
             header |-> header.value,
             encryptedKey |-> Base64Decode(jweAttributes[2]),
             initializationVector |-> Base64Decode(jweAttributes[3]),
             ciphertext |-> Base64Decode(jweAttributes[5]),
             authenticationTag |-> Base64Decode(jweAttributes[4])]

\* Lines 22-33: the object the constructor leaves for rawJwe, or the error
\* it throws.
Construct(raw) ==
    LET jweAttributes == Split(raw)
        header == ParseJweProtectedHeader(jweAttributes[1])
    IN IF header.thrown
       THEN [status |-> "thrown", error |-> header.value]
       ELSE [status |-> "constructed",
             header |-> header.value,
             encryptedKey |-> Base64Decode(jweAttributes[2]),
             initializationVector |-> Base64Decode(jweAttributes[3]),
             ciphertext |-> Base64Decode(jweAttributes[4]),
             authenticationTag |-> Base64Decode(jweAttributes[5])]

\* new JsonWebEncryption(rawJwe).
New ==
    /\ jwe.status = "none"
    /\ jwe' = Construct(rawJwe)
    /\ UNCHANGED <<rawJwe, unwrap, sample, vars>>

(***************************************************************************)
(* unwrapContentEncryptionKey (lines 35-44).  The async function runs to   *)
(* its await, resumes when the decryption settles, and its result follows  *)
(* Promise.all([cek, sk]).                                                 *)
(***************************************************************************)
UnwrappingKeys == {"rsa-key-1", "rsa-key-2"}

NotCalled ==
    [pc |-> "idle", unwrappingKey |-> Undefined, calls |-> <<>>,
     cek |-> "pending", sk |-> "pending", result |-> "pending", value |-> <<>>]

\* Lines 36-39, up to the await: decrypt is called and the function suspends.
UnwrapCalled(unwrappingKey) ==
    /\ jwe.status = "constructed"
    /\ unwrap.pc = "idle"
    /\ unwrap' = [unwrap EXCEPT
          !.pc = "await cek",
          !.unwrappingKey = unwrappingKey,
          !.calls = <<[call |-> "decrypt", algorithm |-> "RSA-OAEP",
                       key |-> unwrappingKey, data |-> jwe.encryptedKey]>>]
    /\ UNCHANGED <<rawJwe, jwe, sample, vars>>

\* Line 39: the decryption resolved, the await resumes and importKey is
\* called with the decrypted key.
DecryptResolved ==
    /\ unwrap.pc = "await cek"
    /\ unwrap' = [unwrap EXCEPT
          !.pc = "all",
          !.cek = "resolved",
          !.calls = Append(@, [call |-> "importKey", algorithm |-> "AES-GCM",
                               key |-> <<"decrypted", unwrap.unwrappingKey>>,
                               data |-> jwe.encryptedKey])]
    /\ UNCHANGED <<rawJwe, jwe, sample, vars>>

\* The rejection of the decryption ignored: the function goes on to importKey.
DecryptRejected_ImportsAnyway ==
    /\ unwrap.pc = "await cek"
    /\ unwrap' = [unwrap EXCEPT
          !.pc = "all",
          !.cek = "rejected",
          !.calls = Append(@, [call |-> "importKey", algorithm |-> "AES-GCM",
                               key |-> <<"decrypted", unwrap.unwrappingKey>>,
                               data |-> jwe.encryptedKey])]
    /\ UNCHANGED <<rawJwe, jwe, sample, vars>>

\* Line 39: the decryption rejected, the await throws and the promise the
\* function returned rejects.
DecryptRejected ==
    /\ unwrap.pc = "await cek"
    /\ unwrap' = [unwrap EXCEPT !.pc = "done", !.cek = "rejected", !.result = "rejected"]
    /\ UNCHANGED <<rawJwe, jwe, sample, vars>>

\* Lines 40-43: importKey resolved, Promise.all resolves, the callback
\* returns sk and the returned promise resolves with the imported key.
ImportResolved ==
    /\ unwrap.pc = "all"
    /\ unwrap' = [unwrap EXCEPT
          !.pc = "done", !.sk = "resolved", !.result = "resolved",
          !.value = <<"AES-GCM", unwrap.calls[Len(unwrap.calls)].key>>]
    /\ UNCHANGED <<rawJwe, jwe, sample, vars>>

\* Line 40: importKey rejected, Promise.all and the returned promise reject.
ImportRejected ==
    /\ unwrap.pc = "all"
    /\ unwrap' = [unwrap EXCEPT !.pc = "done", !.sk = "rejected", !.result = "rejected"]
    /\ UNCHANGED <<rawJwe, jwe, sample, vars>>

(***************************************************************************)
(* The persistence sample (lines 122-157).                                 *)
(***************************************************************************)
Absent == "no file"
TokensReturned == "Tokens returned by MSAL"

StorageErrors == {"EACCES", "EBUSY"}

\* Lines 132-133: writeToStorage was called at load and is pending.
SampleStarted(disk) ==
    [pc |-> "write", disk |-> disk, calls |-> <<"writeToStorage">>,
     written |-> FALSE, read |-> FALSE, log |-> <<>>, error |-> Undefined]

\* Lines 134-139: the write resolved, readFromStorage is called.
WriteResolved ==
    /\ sample.pc = "write"
    /\ sample' = [sample EXCEPT
          !.pc = "read", !.disk = TokensReturned, !.written = TRUE,
          !.calls = Append(@, "readFromStorage"),
          !.log = Append(@, "Wrote to storage!")]
    /\ UNCHANGED <<rawJwe, jwe, unwrap, vars>>

\* Lines 155-157: the write rejected, the error is logged.
WriteRejected(error) ==
    /\ sample.pc = "write"
    /\ sample' = [sample EXCEPT !.pc = "done", !.log = Append(@, error)]
    /\ UNCHANGED <<rawJwe, jwe, unwrap, vars>>

\* Lines 139-152: the read resolved; its callback logs the data, then line
\* 145 evaluates filePersistenceWithDataProtection, which is declared only in
\* the comment of line 129: a ReferenceError is thrown before delete() is
\* called, and it rejects the promise that line 152 catches.
ReadResolved ==
    /\ sample.pc = "read"
    /\ sample' = [sample EXCEPT
          !.pc = "catch", !.read = TRUE,
          !.log = Append(@, <<"Read from disk: ", sample.disk>>),
          !.error = "ReferenceError"]
    /\ UNCHANGED <<rawJwe, jwe, unwrap, vars>>

\* Line 152: the read rejected.
ReadRejected(error) ==
    /\ sample.pc = "read"
    /\ sample' = [sample EXCEPT !.pc = "catch", !.error = error]
    /\ UNCHANGED <<rawJwe, jwe, unwrap, vars>>

\* Lines 152-154: the catch of the read chain logs the error.
ReadCatch ==
    /\ sample.pc = "catch"
    /\ sample' = [sample EXCEPT !.pc = "done", !.log = Append(@, sample.error)]
    /\ UNCHANGED <<rawJwe, jwe, unwrap, vars>>

(***************************************************************************)
(* The inputs and the specification of the file.                           *)
(***************************************************************************)
\* Encoded protected headers: {"alg":"dir"}, {}, and the two cut short.
HeaderSegments ==
    {<<"e", "y", "J", "h", "b", "G", "c", "i", "O", "i", "J", "k", "a", "X", "I", "i", "f", "Q">>,
     <<"e", "3", "0">>,
     <<"e", "y", "J", "h", "b", "G", "c", "i", "O", "i", "J", "k", "a", "X", "I", "i">>,
     <<"e", "w">>}

\* Other encoded segments: the empty one, "AB" and "ABCD".
DataSegments ==
    {<<>>, <<"Q", "U", "I">>, <<"Q", "U", "J", "D", "R", "A">>}

\* The compact serialization of five segments.
Compact(segments) ==
    segments[1] \o <<".">> \o segments[2] \o <<".">> \o segments[3]
        \o <<".">> \o segments[4] \o <<".">> \o segments[5]

CompactJwes ==
    {Compact(<<h, k, iv, c, t>>) :
        h \in HeaderSegments, k \in DataSegments, iv \in DataSegments,
        c \in DataSegments, t \in DataSegments}

\* This file at rest, for the specification of the web application.
JweIdle ==
    /\ rawJwe = <<>>
    /\ jwe = NoJwe
    /\ unwrap = NotCalled
    /\ sample = [pc |-> "done"]

JweInit ==
    /\ Init
    /\ rawJwe \in CompactJwes
    /\ jwe = NoJwe
    /\ unwrap = NotCalled
    /\ sample \in {SampleStarted(disk) : disk \in {Absent, "an earlier cache"}}

JweNext ==
    \/ New
    \/ \E key \in UnwrappingKeys : UnwrapCalled(key)
    \/ DecryptResolved
    \/ DecryptRejected
    \/ ImportResolved
    \/ ImportRejected
    \/ WriteResolved
    \/ \E error \in StorageErrors : WriteRejected(error)
    \/ ReadResolved
    \/ \E error \in StorageErrors : ReadRejected(error)
    \/ ReadCatch

allVars == <<vars, jweVars>>

SpecJwe == JweInit /\ [][JweNext]_allVars

\* The web application, this file at rest.
AppInit == Init /\ JweIdle

Spec == AppInit /\ [][Next]_allVars

(***************************************************************************)
(* Vocabulary of the properties.                                           *)
(***************************************************************************)
\* The /redirect requests whose handler called acquireTokenByCode.
Exchanges == {r \in Ids : "acquireTokenByCode" \in requests[r].calls}

\* The requests whose getAuthCode invocation called getAuthCodeUrl.
UrlRequests == {r \in Ids : "getAuthCodeUrl" \in requests[r].calls}

\* The /api requests answered from the stored access token.
StoredTokenCalls ==
    {r \in Ids : requests[r].route = "api" /\ "callWebApi" \in requests[r].calls}

\* The getAuthCode invocations still outstanding: started, not failed, and
\* their code not yet exchanged.
Outstanding ==
    {a \in Ids : /\ "generatePkceCodes" \in requests[a].calls
                 /\ requests[a].pc # "dead"
                 /\ a \notin redeemed}

\* A step in which a request arrives, and that request after the step.
Arrives == Len(requests') = Len(requests) + 1
Newest == requests'[Len(requests')]

AppStates == {APP_STATES.login, APP_STATES.call_api, APP_STATES.password_reset}

(***************************************************************************)
(* C1.  Every code exchange carries the verifier whose challenge was sent  *)
(* in the getAuthCodeUrl request of the same authorization attempt (the    *)
(* attempt the exchanged code was issued for).                             *)
(***************************************************************************)
C1_VerifierOfSameAttempt ==
    \A r \in Exchanges :
        LET code == requests[r].tokreq.code
        IN code \in IssuedCodes =>
              Challenge(requests[r].tokreq.codeVerifier) = requests[code].sent.codeChallenge

(***************************************************************************)
(* C2.  A redirect whose state matches no outstanding authorization        *)
(* request never proceeds to the code exchange.                            *)
(***************************************************************************)
C2_NoExchangeWithoutPendingRequest ==
    [][(/\ Arrives
        /\ Newest.route = "redirect"
        /\ ~ \E a \in Outstanding : requests[a].args.state = Newest.query.state)
       => "acquireTokenByCode" \notin Newest.calls]_vars

(***************************************************************************)
(* C3.  A redirect whose state is missing or is none of the application's  *)
(* states is answered with an error, never calls acquireTokenByCode, and   *)
(* leaves the access token, the PKCE codes and both request objects as     *)
(* they were.                                                              *)
(***************************************************************************)
UnknownStateRedirects ==
    {r \in Ids : requests[r].route = "redirect" /\ requests[r].query.state \notin AppStates}

C3_UnknownStateRejected ==
    /\ [](\A r \in UnknownStateRedirects :
            /\ requests[r].resp = "error500"
            /\ "acquireTokenByCode" \notin requests[r].calls)
    /\ [][(Arrives /\ Newest.route = "redirect" /\ Newest.query.state \notin AppStates)
          => UNCHANGED <<accessToken, pkceCodes, authCodeRequest, tokenRequest>>]_vars

\* An unknown-state redirect was rejected while a token, PKCE codes and a
\* prepared token request were in the store.
C3_Witness ==
    /\ accessToken # Null
    /\ pkceCodes.verifier # EmptyString
    /\ tokenRequest.code # 0
    /\ \E r \in UnknownStateRedirects :
          /\ r = Len(requests)
          /\ requests[r].resp = "error500"
          /\ requests[r].query.code # 0

(***************************************************************************)
(* C4.  A PKCE verifier is used for at most one code exchange.             *)
(***************************************************************************)
C4_VerifierUsedOnce ==
    \A r1, r2 \in Exchanges :
        (/\ r1 # r2
         /\ requests[r1].tokreq.codeVerifier # EmptyString)
        => requests[r1].tokreq.codeVerifier # requests[r2].tokreq.codeVerifier

(***************************************************************************)
(* C5.  A redirect that carries the provider's error parameter does not    *)
(* proceed to the code exchange, and its answer reports the provider's     *)
(* error and error_description verbatim.                                   *)
(***************************************************************************)
C5_ProviderErrorSurfaced ==
    \A r \in Ids :
        (requests[r].route = "redirect" /\ requests[r].query.error # Undefined)
        => /\ "acquireTokenByCode" \notin requests[r].calls
           /\ requests[r].pc = "done" =>
                 /\ requests[r].resp = "error500"
                 /\ requests[r].body =
                       <<requests[r].query.error, requests[r].query.error_description>>

(***************************************************************************)
(* C6.  /api never hands the stored access token to the web API once the   *)
(* token has expired (a skew only widens the window in which the token     *)
(* counts as expired, so the claim with any skew implies this one).        *)
(***************************************************************************)
C6_NoExpiredTokenUsed ==
    \A r \in StoredTokenCalls :
        requests[requests[r].apiToken].expiresOn > requests[r].apiTime

(***************************************************************************)
(* C7.  The access token /api passes to the web API was issued to the      *)
(* user who makes the /api request.                                        *)
(***************************************************************************)
C7_NoCrossAccountToken ==
    \A r \in StoredTokenCalls :
        requests[requests[r].apiToken].owner = requests[r].user

(***************************************************************************)
(* C8.  The stored access token is null or the token a successful          *)
(* call_api exchange returned, and only such an exchange changes it.       *)
(***************************************************************************)
SucceededApiExchanges ==
    {r \in Exchanges : requests[r].query.state = APP_STATES.call_api /\ requests[r].token # 0}

C8_TokenWrittenOnlyByApiExchange ==
    /\ [](accessToken = Null
            \/ \E r \in SucceededApiExchanges : accessToken = requests[r].token)
    /\ [][accessToken' # accessToken =>
            \E r \in Ids :
               /\ requests[r].pc = "exchange"
               /\ requests[r].query.state = APP_STATES.call_api
               /\ requests'[r].token # 0
               /\ accessToken' = requests'[r].token]_vars

\* A token is stored and another exchange has failed.
C8_Witness ==
    /\ accessToken # Null
    /\ \E r \in Exchanges : requests[r].resp = "error500"

(***************************************************************************)
(* C9.  The request a getAuthCode invocation passes to getAuthCodeUrl      *)
(* carries the authority, scopes and state given to that invocation.       *)
(***************************************************************************)
C9_UrlRequestCarriesOwnArguments ==
    \A r \in UrlRequests :
        /\ requests[r].sent.authority = requests[r].args.authority
        /\ requests[r].sent.scopes = requests[r].args.scopes
        /\ requests[r].sent.state = requests[r].args.state

(***************************************************************************)
(* C10.  After a login-state redirect failed with the forgot-password      *)
(* error and was answered with a redirect to /login, the next /login       *)
(* request asks for the resetPassword authority with state password_reset. *)
(***************************************************************************)
ForgotPasswordRedirects ==
    {r \in Ids : /\ requests[r].route = "redirect"
                 /\ requests[r].query.state = APP_STATES.login
                 /\ IsForgotPassword(requests[r].query)
                 /\ requests[r].resp = "toLogin"}

\* The first /login request that arrived after request r was answered.
IsNextLoginAfter(r, j) ==
    /\ j > requests[r].answeredAfter
    /\ requests[j].route = "login"
    /\ \A k \in Ids : (requests[r].answeredAfter < k /\ k < j) => requests[k].route # "login"

C10_NextLoginResetsPassword ==
    \A r \in ForgotPasswordRedirects : \A j \in Ids :
        IsNextLoginAfter(r, j) =>
            /\ requests[j].args.authority = policies.authorities.resetPassword.authority
            /\ requests[j].args.state = APP_STATES.password_reset

(***************************************************************************)
(* C11.  Every request passed to getAuthCodeUrl carries the non-empty      *)
(* challenge of the verifier generatePkceCodes gave the same getAuthCode   *)
(* invocation, with challenge method "S256"; the challenge method has no   *)
(* other value anywhere.                                                   *)
(***************************************************************************)
C11_ChallengeOfOwnVerifierS256 ==
    /\ \A r \in UrlRequests :
          /\ requests[r].verifier # EmptyString
          /\ requests[r].sent.codeChallenge # EmptyString
          /\ requests[r].sent.codeChallenge = Challenge(requests[r].verifier)
          /\ requests[r].sent.codeChallengeMethod = "S256"
    /\ pkceCodes.challengeMethod = "S256"
    /\ authCodeRequest.codeChallengeMethod \in {Undefined, "S256"}

\* Two invocations overlapped (the second started before the first one's
\* PKCE codes arrived) and both have passed their request to getAuthCodeUrl.
C11_Witness ==
    \E r1, r2 \in UrlRequests :
        /\ r1 < r2
        /\ requests[r1].sent.state # requests[r1].args.state
        /\ requests[r1].verifier # requests[r2].verifier

(***************************************************************************)
(* C12.  Every request receives a response: a request none of whose        *)
(* callbacks is pending any more (its handler and promise chain have       *)
(* ended) has been answered.                                               *)
(***************************************************************************)
C12_EndedRequestsAnswered ==
    \A r \in Ids :
        requests[r].pc \in {"done", "dead"} => requests[r].resp # "none"

(***************************************************************************)
(* C13.  After a redirect with state password_reset was handled (answered  *)
(* with a redirect to /login), the next /login request asks for the        *)
(* signUpSignIn authority with state login.                                *)
(***************************************************************************)
PasswordResetRedirects ==
    {r \in Ids : /\ requests[r].route = "redirect"
                 /\ requests[r].query.state = APP_STATES.password_reset
                 /\ requests[r].resp = "toLogin"}

C13_NextLoginSignsIn ==
    \A r \in PasswordResetRedirects : \A j \in Ids :
        IsNextLoginAfter(r, j) =>
            /\ requests[j].args.authority = policies.authorities.signUpSignIn.authority
            /\ requests[j].args.state = APP_STATES.login

(***************************************************************************)
(* C14.  The persistence sample: readFromStorage is called only after the  *)
(* write resolved, and a run whose write and read both succeeded ends with *)
(* delete() called, the cache file gone and no error caught.               *)
(***************************************************************************)
SampleCalls == {sample.calls[i] : i \in DOMAIN sample.calls}

C14_WriteReadDelete ==
    /\ "readFromStorage" \in SampleCalls => sample.written
    /\ (sample.pc = "done" /\ sample.written /\ sample.read) =>
            /\ "delete" \in SampleCalls
            /\ sample.disk = Absent
            /\ sample.error = Undefined

(***************************************************************************)
(* C15.  unwrapContentEncryptionKey: importKey is called only once the     *)
(* RSA-OAEP decryption of encryptedKey has resolved; the returned promise  *)
(* resolves, with the imported AES-GCM key, only when decryption and       *)
(* import both resolved; when decryption rejects importKey is not called   *)
(* and the returned promise rejects.                                       *)
(***************************************************************************)
UnwrapCalls == {unwrap.calls[i].call : i \in DOMAIN unwrap.calls}

C15_ImportOnlyAfterDecryption ==
    /\ "importKey" \in UnwrapCalls =>
            /\ unwrap.cek = "resolved"
            /\ unwrap.calls[1] = [call |-> "decrypt", algorithm |-> "RSA-OAEP",
                                  key |-> unwrap.unwrappingKey,
                                  data |-> jwe.encryptedKey]
    /\ unwrap.result = "resolved" =>
            /\ unwrap.cek = "resolved"
            /\ unwrap.sk = "resolved"
            /\ unwrap.value = <<"AES-GCM", <<"decrypted", unwrap.unwrappingKey>>>>
    /\ unwrap.cek = "rejected" =>
            /\ "importKey" \notin UnwrapCalls
            /\ unwrap.result = "rejected"

C15_Witness ==
    /\ unwrap.result = "resolved"
    /\ Len(unwrap.calls) = 2
    /\ jwe.encryptedKey = <<65, 66>>

(***************************************************************************)
(* C16.  For a compact JWE of five segments, once the constructor has run: *)
(* if the decoded first segment is JSON, the object holds its parse as     *)
(* header and the decodings of segments two to five as encryptedKey,       *)
(* initializationVector, ciphertext and authenticationTag; otherwise the   *)
(* parse error was thrown and there is no object.                          *)
(***************************************************************************)
C16_ConstructorDecodesInOrder ==
    \A h \in HeaderSegments : \A k, iv, c, t \in DataSegments :
        (rawJwe = Compact(<<h, k, iv, c, t>>) /\ jwe.status # "none") =>
            IF IsJson(Base64Decode(h))
            THEN jwe = [status |-> "constructed",
                        header |-> JsonParse(Base64Decode(h)),
                        encryptedKey |-> Base64Decode(k),
                        initializationVector |-> Base64Decode(iv),
                        ciphertext |-> Base64Decode(c),
                        authenticationTag |-> Base64Decode(t)]
            ELSE jwe = [status |-> "thrown", error |-> "SyntaxError"]

C16_Witness ==
    /\ jwe.status = "constructed"
    /\ jwe.header.alg = "dir"
    /\ jwe.encryptedKey = <<65, 66>>
    /\ jwe.initializationVector = <<>>
    /\ jwe.ciphertext = <<65, 66, 67, 68>>
    /\ jwe.authenticationTag = <<65, 66>>

====
